---- MODULE Spec2Model ----
(***************************************************************************)
(* Model of the sharded answer store of core/storage/statistics/           *)
(* gae_models.py (StateAnswersModel): the shard packer _shard_answers, the  *)
(* transactional insert insert_submitted_answers and the datastore the      *)
(* shards live in.                                                          *)
(***************************************************************************)
EXTENDS Integers, Sequences, FiniteSets, TLC

\* ------------------------------------------------------------------ bounds

\* The number of answer records all committed inserts together may hold.
MaxRecords == 3
\* The longest tail and the longest batch handed to the packer on its own.
MaxTailLen == 2
MaxNewLen == 3
\* The longest subject a rule is evaluated on, and the largest rule parameter.
MaxSubjectLen == 3
MaxParam == 3

\* ------------------------------------------------------- program constants

_MAX_ANSWER_LIST_BYTE_SIZE == 900000

\* --------------------------------------------------------------- the data

\* None: what a read of a missing entity returns.
None == [absent |-> TRUE]

\* Answer dicts are opaque values; only their estimated size is looked at.
Answers == {"s1", "s2", "m1", "m2", "l1", "xl"}

\* The answers the store is driven with: two that fill a shard exactly
\* (400000 + 500000), and one that is larger than a shard.
StoreAnswers == {"m1", "m2", "xl"}

\* An answer whose estimated size would be 0. sys.getsizeof never gives 0;
\* the answer is in use only where sizes of 0 are asked about.
ZeroSizeAnswer == "z0"

\* The answers whose inserts are counted.
CountedAnswers == StoreAnswers \cup {ZeroSizeAnswer}

\* sys.getsizeof(json.dumps(answer_dict)): a positive number that depends on
\* the answer's content only.
_get_answer_dict_size(answer_dict) ==
    CASE answer_dict = "z0" -> 0
      [] answer_dict = "s1" -> 10
      [] answer_dict = "s2" -> 10
      [] answer_dict = "m1" -> 400000
      [] answer_dict = "m2" -> 500000
      [] answer_dict = "l1" -> 899999
      [] answer_dict = "xl" -> 900001

Procs == {1, 2}

Key1 == [exploration_id |-> "exp1", exploration_version |-> 1, state_name |-> "Intro"]
Key2 == [exploration_id |-> "exp2", exploration_version |-> 1, state_name |-> "Intro"]

Keys == {Key1, Key2}

\* Two keys whose exploration id and state name hold the separator of the
\* entity ids.
Key3 == [exploration_id |-> "exp1", exploration_version |-> 1, state_name |-> "Intro:1:End"]
Key4 == [exploration_id |-> "exp1:1:Intro", exploration_version |-> 1, state_name |-> "End"]

SeparatorKeys == {Key3, Key4}

NoKey == [exploration_id |-> "", exploration_version |-> 0, state_name |-> ""]

InteractionIds == {"TextInput", "NumericInput"}

\* Every insert that changes the store adds a record, and a record opens at
\* most one shard: the store has room for more shards than can come to be.
MaxShardId == 2 * MaxRecords + 2

_get_entity_id(exploration_id, exploration_version, state_name, shard_id) ==
    exploration_id \o ":" \o ToString(exploration_version) \o ":"
        \o state_name \o ":" \o ToString(shard_id)

KeyEntityId(k, shard_id) ==
    _get_entity_id(k.exploration_id, k.exploration_version, k.state_name, shard_id)

\* The ids of the shards of the keys, computed once.
EntityIdTable ==
    [k \in Keys \cup SeparatorKeys |-> [i \in 0..MaxShardId |-> KeyEntityId(k, i)]]

EntityIds == { EntityIdTable[k][i] : k \in Keys, i \in 0..MaxShardId }

StateAnswersModel_WithCount(k, shard_id, interaction_id, answers, size) ==
    [ id |-> EntityIdTable[k][shard_id],
      exploration_id |-> k.exploration_id,
      exploration_version |-> k.exploration_version,
      state_name |-> k.state_name,
      shard_id |-> shard_id,
      interaction_id |-> interaction_id,
      shard_count |-> 0,
      accumulated_answer_json_size_bytes |-> size,
      submitted_answer_list |-> answers ]

\* cls(id=..., shard_id=shard_id, ...) without shard_count: an entity of
\* StateAnswersModel whose shard_count is not populated (the record has no
\* such field).
StateAnswersModel(k, shard_id, interaction_id, answers, size) ==
    [ id |-> EntityIdTable[k][shard_id],
      exploration_id |-> k.exploration_id,
      exploration_version |-> k.exploration_version,
      state_name |-> k.state_name,
      shard_id |-> shard_id,
      interaction_id |-> interaction_id,
      accumulated_answer_json_size_bytes |-> size,
      submitted_answer_list |-> answers ]

\* cls(id=..., shard_id=0, ..., shard_count=0, submitted_answer_list=[]): the
\* main shard of a state without answers; its
\* accumulated_answer_json_size_bytes is the default, 0.
NewMainShard(k, interaction_id) ==
    [ id |-> EntityIdTable[k][0],
      exploration_id |-> k.exploration_id,
      exploration_version |-> k.exploration_version,
      state_name |-> k.state_name,
      shard_id |-> 0,
      interaction_id |-> interaction_id,
      shard_count |-> 0,
      accumulated_answer_json_size_bytes |-> 0,
      submitted_answer_list |-> <<>> ]

\* ------------------------------------------------------------- sequences

RECURSIVE SumSizes(_)
SumSizes(s) ==
    IF s = <<>> THEN 0 ELSE _get_answer_dict_size(Head(s)) + SumSizes(Tail(s))

RECURSIVE Flatten(_)
Flatten(ss) == IF ss = <<>> THEN <<>> ELSE Head(ss) \o Flatten(Tail(ss))

Count(s, a) == Cardinality({ i \in 1..Len(s) : s[i] = a })

SeqsUpTo(S, n) == UNION { [1..m -> S] : m \in 0..n }

\* ------------------------------------------------------------ the packer

\* sorted(new_answer_size_list, key=lambda x: x[1]): a stable sort, an answer
\* goes behind every answer that is not larger.
RECURSIVE InsertBySize(_, _)
InsertBySize(sorted, a) ==
    IF sorted = <<>> THEN <<a>>
    ELSE IF _get_answer_dict_size(Head(sorted)) <= _get_answer_dict_size(a)
         THEN <<Head(sorted)>> \o InsertBySize(Tail(sorted), a)
         ELSE <<a>> \o sorted

RECURSIVE SortBySize(_)
SortBySize(s) ==
    IF s = <<>> THEN <<>>
    ELSE InsertBySize(SortBySize(SubSeq(s, 1, Len(s) - 1)), s[Len(s)])

Unsorted(new_answer_list) == new_answer_list

new_answer_list_sorted(new_answer_list) == SortBySize(new_answer_list)

Fits_NoAccum(list_size, answer_size) ==
    answer_size <= _MAX_ANSWER_LIST_BYTE_SIZE

Fits_CurOnly(list_size, answer_size) ==
    list_size <= _MAX_ANSWER_LIST_BYTE_SIZE

Fits_Strict(list_size, answer_size) ==
    list_size + answer_size < _MAX_ANSWER_LIST_BYTE_SIZE

\* sharded_answer_list_sizes[-1] + answer_size <= cls._MAX_ANSWER_LIST_BYTE_SIZE
Fits(list_size, answer_size) ==
    list_size + answer_size <= _MAX_ANSWER_LIST_BYTE_SIZE

InitBuckets_Empty(current_answer_list, current_answer_list_size) ==
    [ lists |-> << <<>> >>, sizes |-> <<0>> ]

\* sharded_answer_lists = [list(current_answer_list)]
\* sharded_answer_list_sizes = [current_answer_list_size]
InitBuckets(current_answer_list, current_answer_list_size) ==
    [ lists |-> <<current_answer_list>>, sizes |-> <<current_answer_list_size>> ]

PlaceAnswer_SizeOfLast(sh, answer_dict) ==
    LET n == Len(sh.lists)
        answer_size == _get_answer_dict_size(answer_dict)
    IN  IF Fits(sh.sizes[n], answer_size)
        THEN [ lists |-> [sh.lists EXCEPT ![n] = Append(@, answer_dict)],
               sizes |-> [sh.sizes EXCEPT ![n] = answer_size] ]
        ELSE [ lists |-> Append(sh.lists, <<answer_dict>>),
               sizes |-> Append(sh.sizes, answer_size) ]

PlaceAnswer_Dedup(sh, answer_dict) ==
    LET n == Len(sh.lists)
        answer_size == _get_answer_dict_size(answer_dict)
    IN  IF \E i \in 1..n : \E j \in 1..Len(sh.lists[i]) : sh.lists[i][j] = answer_dict
        THEN sh
        ELSE IF Fits(sh.sizes[n], answer_size)
        THEN [ lists |-> [sh.lists EXCEPT ![n] = Append(@, answer_dict)],
               sizes |-> [sh.sizes EXCEPT ![n] = @ + answer_size] ]
        ELSE [ lists |-> Append(sh.lists, <<answer_dict>>),
               sizes |-> Append(sh.sizes, answer_size) ]

PlaceAnswer_Prepend(sh, answer_dict) ==
    LET n == Len(sh.lists)
        answer_size == _get_answer_dict_size(answer_dict)
    IN  IF Fits(sh.sizes[n], answer_size)
        THEN [ lists |-> [sh.lists EXCEPT ![n] = <<answer_dict>> \o @],
               sizes |-> [sh.sizes EXCEPT ![n] = @ + answer_size] ]
        ELSE [ lists |-> Append(sh.lists, <<answer_dict>>),
               sizes |-> Append(sh.sizes, answer_size) ]

\* One turn of the loop over new_answer_list_sorted.
PlaceAnswer(sh, answer_dict) ==
    LET n == Len(sh.lists)
        answer_size == _get_answer_dict_size(answer_dict)
    IN  IF Fits(sh.sizes[n], answer_size)
        THEN [ lists |-> [sh.lists EXCEPT ![n] = Append(@, answer_dict)],
               sizes |-> [sh.sizes EXCEPT ![n] = @ + answer_size] ]
        ELSE [ lists |-> Append(sh.lists, <<answer_dict>>),
               sizes |-> Append(sh.sizes, answer_size) ]

RECURSIVE PlaceAll(_, _)
PlaceAll(sh, sorted) ==
    IF sorted = <<>> THEN sh
    ELSE PlaceAll(PlaceAnswer(sh, Head(sorted)), Tail(sorted))

_shard_answers(current_answer_list, current_answer_list_size, new_answer_list) ==
    PlaceAll(InitBuckets(current_answer_list, current_answer_list_size),
             new_answer_list_sorted(new_answer_list))

\* ------------------------------------------------------------- the store

VARIABLES
    store,        \* the datastore: entity id -> entity, or None
    pc,           \* where each caller of insert_submitted_answers stands
    key,          \* the (exploration id, version, state name) of its last call
    main_shard,   \* what its read of shard 0 returned
    last_shard,   \* what its read of the last shard returned
    retried,      \* whether its transaction was re-run after a conflict
    result,       \* how its last call ended, and with how many answers put
    inserted,     \* per key, how often each answer was successfully inserted
    env,          \* the callers, keys, interaction ids and answers in use
    pk,           \* a call of the packer on its own
    redo,         \* per caller, the batch of a call that is run once more
    rd,           \* a call of get_all_models outside a transaction
    calc,         \* the store of calculation outputs and its last call
    rule          \* a rule for lists of unicode strings and its last evaluation

vars == << store, pc, key, main_shard, last_shard, retried, result,
           inserted, env, pk, redo, rd, calc, rule >>

\* cls.get(entity_id, strict=False): the entity, or None
Get(st, entity_id) == st[entity_id]

\* cls._get_model(exploration_id, exploration_version, state_name, shard_id)
_get_model(st, k, shard_id) == Get(st, EntityIdTable[k][shard_id])

\* cls.put_multi(entities): every entity is stored under its id
RECURSIVE PutMulti(_, _)
PutMulti(st, entities) ==
    IF entities = <<>> THEN st
    ELSE PutMulti([st EXCEPT ![Head(entities).id] = Head(entities)], Tail(entities))

MainOf_AlwaysNew(k, interaction_id, m) == NewMainShard(k, interaction_id)

\* The main shard the call goes on with: the one read, or a fresh one.
MainOf(k, interaction_id, m) ==
    IF m = None THEN NewMainShard(k, interaction_id) ELSE m

\* The last shard the call goes on with: the main shard itself unless it
\* counts further shards.
LastOf(main0, l) == IF main0.shard_count > 0 THEN l ELSE main0

new_shard_count_OffByOne(shard_count, lists) == shard_count + Len(lists)

new_shard_count(shard_count, lists) == shard_count + Len(lists) - 1

NewShardId_Skip(shard_count, i) == shard_count + i + 1

\* shard_id = main_shard.shard_count + i
NewShardId(shard_count, i) == shard_count + i

last_shard_updated_ByCount(sizes, last0) == Len(sizes) > 1

\* if sharded_answer_list_sizes[0] != last_shard.accumulated_answer_json_size_bytes
last_shard_updated(sizes, last0) ==
    sizes[1] # last0.accumulated_answer_json_size_bytes

PutList_NoLast(new_shards, main1, last1, last_shard_is_main, main_upd, last_upd) ==
    IF last_shard_is_main /\ (main_upd \/ last_upd)
    THEN Append(new_shards, main1)
    ELSE new_shards \o (IF main_upd THEN <<main1>> ELSE <<>>)

PutList_AlwaysMain(new_shards, main1, last1, last_shard_is_main, main_upd, last_upd) ==
    IF last_shard_is_main
    THEN Append(new_shards, main1)
    ELSE new_shards \o <<main1>> \o (IF last_upd THEN <<last1>> ELSE <<>>)

\* What is appended to entities_to_put behind the new shards.
PutList(new_shards, main1, last1, last_shard_is_main, main_upd, last_upd) ==
    IF last_shard_is_main /\ (main_upd \/ last_upd)
    THEN Append(new_shards, main1)
    ELSE new_shards \o (IF main_upd THEN <<main1>> ELSE <<>>)
                    \o (IF last_upd THEN <<last1>> ELSE <<>>)

\* _insert_submitted_answers_unsafe from the reads on: the entities handed to
\* put_multi, given what the reads of the main and the last shard returned.
entities_to_put(k, interaction_id, new_submitted_answer_dict_list, m, l) ==
    LET main0 == MainOf(k, interaction_id, m)
        last0 == LastOf(main0, l)
        sh == _shard_answers(last0.submitted_answer_list,
                             last0.accumulated_answer_json_size_bytes,
                             new_submitted_answer_dict_list)
        count1 == new_shard_count(main0.shard_count, sh.lists)
        last_shard_is_main == main0.shard_count = 0
        last_upd == last_shard_updated(sh.sizes, last0)
        main_upd == main0.shard_count # count1
        \* last_shard and main_shard are one object when the last shard is
        \* the main shard: it takes both updates.
        last1 == IF last_upd
                 THEN [last0 EXCEPT !.submitted_answer_list = sh.lists[1],
                                    !.accumulated_answer_json_size_bytes = sh.sizes[1]]
                 ELSE last0
        main1 == IF last_shard_is_main
                 THEN [last1 EXCEPT !.shard_count = count1]
                 ELSE [main0 EXCEPT !.shard_count = count1]
        new_shards ==
            [ i \in 1..(Len(sh.lists) - 1) |->
                StateAnswersModel(k, NewShardId(main0.shard_count, i), interaction_id,
                                  sh.lists[i + 1], sh.sizes[i + 1]) ]
    IN  PutList(new_shards, main1, last1, last_shard_is_main, main_upd, last_upd)

\* insert_submitted_answers runs _insert_submitted_answers_unsafe inside
\* transaction_services.run_in_transaction.
InTransaction_Not == FALSE

InTransaction == TRUE

\* The reads of the transaction still hold: the store would return the same
\* entities now.
ReadsValid(p) ==
    /\ _get_model(store, key[p], 0) = main_shard[p]
    /\ (main_shard[p] # None /\ main_shard[p].shard_count > 0) =>
           _get_model(store, key[p], main_shard[p].shard_count) = last_shard[p]

\* The call can compute its writes: the last shard it looked up was there.
CanCompute(p) ==
    (main_shard[p] # None /\ main_shard[p].shard_count > 0) => last_shard[p] # None

TotalInserted ==
    LET RECURSIVE Sum(_)
        Sum(S) == IF S = {} THEN 0
                  ELSE LET x == CHOOSE y \in S : TRUE
                       IN  inserted[x[1]][x[2]] + Sum(S \ {x})
    IN  Sum((DOMAIN inserted) \X CountedAnswers)

\* The batches a call may still bring: the answers in use, as many as the
\* bound on the records leaves.
Batches == SeqsUpTo(env.answers, MaxRecords - TotalInserted)

Prefixes(s) == { SubSeq(s, 1, n) : n \in 0..Len(s) }

\* What a failing call leaves written: nothing inside a transaction; outside
\* one, put_multi may have stored some of its entities.
FailWrites(p) ==
    IF InTransaction \/ pc[p] # "put" \/ ~CanCompute(p) THEN { <<>> }
    ELSE UNION { Prefixes(entities_to_put(key[p], iid, new, main_shard[p], last_shard[p])) :
                   iid \in env.iids, new \in Batches }

PkOff == [phase |-> "off"]

\* No call is being run once more / no reader / no calculation output store.
NoRedo == [phase |-> "none"]

RdOff == [phase |-> "off"]

CalcOff == [phase |-> "off"]

RuleOff == [phase |-> "off"]

Outcome(status, records) == [status |-> status, records |-> records]

\* Two concurrent callers on two keys.
MainEnv == [ procs |-> Procs, keys |-> Keys, iids |-> {"TextInput"},
             answers |-> StoreAnswers ]

Init ==
    /\ store = [id \in EntityIds |-> None]
    /\ pc = [p \in Procs |-> "idle"]
    /\ key = [p \in Procs |-> NoKey]
    /\ main_shard = [p \in Procs |-> None]
    /\ last_shard = [p \in Procs |-> None]
    /\ retried = [p \in Procs |-> FALSE]
    /\ result = [p \in Procs |-> Outcome("none", 0)]
    /\ inserted = [k \in Keys |-> [a \in CountedAnswers |-> 0]]
    /\ env = MainEnv
    /\ pk = PkOff
    /\ redo = [p \in Procs |-> NoRedo]
    /\ rd = RdOff
    /\ calc = CalcOff
    /\ rule = RuleOff

\* What the read of the main shard leads to: the read of the last shard when
\* the main shard counts further shards, the rest of the function otherwise.
AfterMain(m) == IF m # None /\ m.shard_count > 0 THEN "get_last" ELSE "put"

\* insert_submitted_answers is called: its transaction starts and
\* _insert_submitted_answers_unsafe reads the main shard,
\* main_shard = cls._get_model(..., 0)
Call(p, k) ==
    /\ pc[p] = "idle"
    /\ LET m == _get_model(store, k, 0)
       IN  /\ main_shard' = [main_shard EXCEPT ![p] = m]
           /\ pc' = [pc EXCEPT ![p] = AfterMain(m)]
    /\ key' = [key EXCEPT ![p] = k]
    /\ retried' = [retried EXCEPT ![p] = FALSE]
    /\ result' = [result EXCEPT ![p] = Outcome("none", 0)]
    /\ redo' = [redo EXCEPT ![p] = NoRedo]
    /\ UNCHANGED << store, last_shard, inserted, env, pk, rd, calc, rule >>

\* last_shard = cls._get_model(..., main_shard.shard_count)
ReadLast(p) ==
    /\ pc[p] = "get_last"
    /\ last_shard' = [last_shard EXCEPT ![p] =
                         _get_model(store, key[p], main_shard[p].shard_count)]
    /\ pc' = [pc EXCEPT ![p] = "put"]
    /\ UNCHANGED << store, key, main_shard, retried, result, inserted, env, pk, redo, rd, calc, rule >>

\* The rest of _insert_submitted_answers_unsafe and the commit of its
\* transaction: the answers are sharded and every entity is put at once.
\* The batch and the interaction id of the call are looked at here first; a
\* call that is run once more keeps the ones it has.
Commit(p, interaction_id, new) ==
    /\ pc[p] = "put"
    /\ redo[p].phase # "rerun"
    /\ CanCompute(p)
    /\ InTransaction => ReadsValid(p)
    /\ store' = PutMulti(store, entities_to_put(key[p], interaction_id, new,
                                                main_shard[p], last_shard[p]))
    /\ inserted' = [inserted EXCEPT ![key[p]] =
                       [a \in CountedAnswers |-> @[a] + Count(new, a)]]
    /\ pc' = [pc EXCEPT ![p] = "idle"]
    /\ main_shard' = [main_shard EXCEPT ![p] = None]
    /\ last_shard' = [last_shard EXCEPT ![p] = None]
    /\ result' = [result EXCEPT ![p] = Outcome("ok", Len(new))]
    /\ UNCHANGED << key, retried, env, pk, redo, rd, calc, rule >>

\* The commit finds that another transaction changed what this one read: the
\* transaction is rolled back and the function is run again, from its read of
\* the main shard.
Conflict(p) ==
    /\ pc[p] = "put"
    /\ InTransaction
    /\ ~ReadsValid(p)
    /\ LET m == _get_model(store, key[p], 0)
       IN  /\ main_shard' = [main_shard EXCEPT ![p] = m]
           /\ pc' = [pc EXCEPT ![p] = AfterMain(m)]
    /\ last_shard' = [last_shard EXCEPT ![p] = None]
    /\ retried' = [retried EXCEPT ![p] = TRUE]
    /\ UNCHANGED << store, key, result, inserted, env, pk, redo, rd, calc, rule >>

\* The call fails: an error of the store, a deadline, too many conflicts.
Fail(p) ==
    /\ pc[p] # "idle"
    /\ \E written \in FailWrites(p) : store' = PutMulti(store, written)
    /\ pc' = [pc EXCEPT ![p] = "idle"]
    /\ main_shard' = [main_shard EXCEPT ![p] = None]
    /\ last_shard' = [last_shard EXCEPT ![p] = None]
    /\ result' = [result EXCEPT ![p] = Outcome("failed", 0)]
    /\ UNCHANGED << key, retried, inserted, env, pk, redo, rd, calc, rule >>

Next ==
    \/ \E p \in env.procs, k \in env.keys : Call(p, k)
    \/ \E p \in Procs : ReadLast(p)
    \/ \E p \in Procs, iid \in env.iids, new \in Batches : Commit(p, iid, new)
    \/ \E p \in Procs : Conflict(p)
    \/ \E p \in Procs : Fail(p)

Spec == Init /\ [][Next]_vars

shard_ids_Long(shard_count) == [i \in 1..(shard_count + 1) |-> i]

shard_ids_Short(shard_count) == [i \in 1..(shard_count - 1) |-> i]

\* The shard ids get_all_models asks for: xrange(1, main_shard.shard_count + 1)
shard_ids(shard_count) == [i \in 1..shard_count |-> i]

\* cls.get_multi(shard_ids): the entities, or None, in the order of the ids
get_multi(st, k, ids) == [j \in 1..Len(ids) |-> _get_model(st, k, ids[j])]

\* get_all_models: None without a main shard, else the list all_models: the
\* main shard and the shards 1..shard_count as get_multi returns them (the
\* list is held in a record, so that it compares with None).
get_all_models(st, k) ==
    LET main == _get_model(st, k, 0)
    IN  IF main # None
        THEN [ all_models |->
                 <<main>> \o (IF main.shard_count > 0
                              THEN get_multi(st, k, shard_ids(main.shard_count))
                              ELSE <<>>) ]
        ELSE None

\* ------------------------------------------------- the packer on its own

\* The answer lists a shard can hold when the packer is called: within the
\* capacity, or one answer that is larger than a shard.
Tails ==
    { t \in SeqsUpTo(Answers, MaxTailLen) :
        SumSizes(t) <= _MAX_ANSWER_LIST_BYTE_SIZE \/ Len(t) = 1 }

NoBuckets == [ lists |-> <<>>, sizes |-> <<>> ]

\* A call _shard_answers(current_answer_list, current_answer_list_size,
\* new_answer_list) with the size the store keeps for the list.
InitPack ==
    /\ store = [id \in EntityIds |-> None]
    /\ pc = [p \in Procs |-> "idle"]
    /\ key = [p \in Procs |-> NoKey]
    /\ main_shard = [p \in Procs |-> None]
    /\ last_shard = [p \in Procs |-> None]
    /\ retried = [p \in Procs |-> FALSE]
    /\ result = [p \in Procs |-> Outcome("none", 0)]
    /\ inserted = [k \in Keys |-> [a \in CountedAnswers |-> 0]]
    /\ env = [ procs |-> {}, keys |-> {}, iids |-> {}, answers |-> Answers ]
    /\ redo = [p \in Procs |-> NoRedo]
    /\ rd = RdOff
    /\ calc = CalcOff
    /\ rule = RuleOff
    /\ \E t \in Tails, new \in SeqsUpTo(Answers, MaxNewLen) :
          pk = [ phase |-> "call",
                 current_answer_list |-> t,
                 current_answer_list_size |-> SumSizes(t),
                 new_answer_list |-> new,
                 rest |-> <<>>,
                 sh |-> NoBuckets ]

\* The new answers are sorted and the first list is set up.
PackEnter ==
    /\ pk.phase = "call"
    /\ pk' = [pk EXCEPT !.phase = "loop",
                        !.rest = new_answer_list_sorted(pk.new_answer_list),
                        !.sh = InitBuckets(pk.current_answer_list,
                                           pk.current_answer_list_size)]
    /\ UNCHANGED << store, pc, key, main_shard, last_shard, retried, result,
                    inserted, env, redo, rd, calc, rule >>

\* for answer_dict, answer_size in new_answer_list_sorted: one turn
PackStep ==
    /\ pk.phase = "loop"
    /\ pk.rest # <<>>
    /\ pk' = [pk EXCEPT !.sh = PlaceAnswer(pk.sh, Head(pk.rest)),
                        !.rest = Tail(pk.rest)]
    /\ UNCHANGED << store, pc, key, main_shard, last_shard, retried, result,
                    inserted, env, redo, rd, calc, rule >>

\* return sharded_answer_lists, sharded_answer_list_sizes
PackReturn ==
    /\ pk.phase = "loop"
    /\ pk.rest = <<>>
    /\ pk' = [pk EXCEPT !.phase = "done"]
    /\ UNCHANGED << store, pc, key, main_shard, last_shard, retried, result,
                    inserted, env, redo, rd, calc, rule >>

NextPack == PackEnter \/ PackStep \/ PackReturn

SpecPack == InitPack /\ [][NextPack]_vars

\* The loop of the packer, turn by turn, returns what _shard_answers returns.
PackStepsAgree ==
    pk.phase = "done" =>
        pk.sh = _shard_answers(pk.current_answer_list, pk.current_answer_list_size,
                               pk.new_answer_list)

\* ------------------------------------------------------------ properties

Shard(k, i) == store[EntityIdTable[k][i]]

ShardExists(k, i) == Shard(k, i) # None

\* The answers of all shards of a key as a reader gets them: the lists of the
\* shards get_all_models returns, in the order of the shard ids.
AllAnswers(st, k) ==
    LET got == get_all_models(st, k)
    IN  IF got = None THEN <<>>
        ELSE Flatten([i \in 1..Len(got.all_models) |->
                        IF got.all_models[i] = None THEN <<>>
                        ELSE got.all_models[i].submitted_answer_list])

InsertedCount(k) ==
    LET RECURSIVE Sum(_)
        Sum(S) == IF S = {} THEN 0
                  ELSE LET a == CHOOSE y \in S : TRUE
                       IN  inserted[k][a] + Sum(S \ {a})
    IN  Sum(CountedAnswers)

\* The step is the successful end of a call of p / the failure of a call of p.
CommitStep(p) == pc[p] = "put" /\ pc'[p] = "idle" /\ result'[p].status = "ok"

FailStep(p) == pc[p] # "idle" /\ pc'[p] = "idle" /\ result'[p].status = "failed"

\* C1: after any successful inserts on a key, the answer lists of all its
\* shards, read in the order of the shard ids, hold every inserted answer
\* exactly as often as it was inserted.
C1_NoAnswerLost ==
    \A k \in Keys : \A a \in StoreAnswers :
        Count(AllAnswers(store, k), a) = inserted[k][a]

\* Three answers went in, the last of them into a last shard that is not the
\* main shard.
C1_Witness ==
    \E k \in Keys :
        /\ ShardExists(k, 0)
        /\ Shard(k, 0).shard_count >= 1
        /\ Len(Shard(k, Shard(k, 0).shard_count).submitted_answer_list) >= 2
        /\ InsertedCount(k) >= 3

\* C2 as stated: once an insert on a key has succeeded, whatever its batch,
\* the main shard of the key exists.
C2_MasterAfterAnyInsert ==
    [][\A p \in Procs : CommitStep(p) => ShardExists(key[p], 0)']_vars

\* The shards of a key are the main shard and the shards 1..shard_count.
Contiguous(k) ==
    /\ ShardExists(k, 0)
    /\ Shard(k, 0).shard_count \in 0..MaxShardId
    /\ \A i \in 1..MaxShardId : ShardExists(k, i) <=> i <= Shard(k, 0).shard_count

CountOf(st, k) ==
    IF _get_model(st, k, 0) = None THEN 0 ELSE _get_model(st, k, 0).shard_count

\* The shards a step creates have the ids behind the old shard_count, and
\* shard_count grows by their number.
NewShardsContiguous(k) ==
    LET created == { i \in 1..MaxShardId : ~ShardExists(k, i) /\ ShardExists(k, i)' }
    IN  created # {} =>
            /\ created = (CountOf(store, k) + 1)..CountOf(store', k)
            /\ CountOf(store', k) = CountOf(store, k) + Cardinality(created)

\* C2 (amended): for every key that had a successful insert of at least one
\* answer, and for every key of which any shard exists, the main shard exists,
\* a shard exists at every index 1..shard_count and none above; a key without
\* main shard has no shard; the shards one insert creates have contiguous
\* indices from the old shard_count + 1 on and raise shard_count by their
\* number.
C2_Contiguous ==
    [][(store' # store \/ inserted' # inserted) =>
         \A k \in Keys :
            /\ (InsertedCount(k)' > 0 \/ \E i \in 0..MaxShardId : ShardExists(k, i)')
                   => Contiguous(k)'
            /\ NewShardsContiguous(k)]_vars

\* One insert has created two shards at once behind an existing shard 1.
C2_Witness ==
    \E k \in Keys :
        /\ Contiguous(k)
        /\ Shard(k, 0).shard_count = 3
        /\ \A i \in 1..3 : Len(Shard(k, i).submitted_answer_list) = 1
        /\ \E p \in Procs : result[p] = Outcome("ok", 2) /\ key[p] = k

\* C3: under every interleaving of concurrent inserts the shard the main
\* shard's shard_count names is in the store, and the look-up of the last
\* shard inside an insert finds a shard.
C3_NoDanglingCount ==
    /\ \A k \in Keys :
          ShardExists(k, 0) => ShardExists(k, Shard(k, 0).shard_count)
    /\ \A p \in Procs :
          (pc[p] = "put" /\ main_shard[p] # None /\ main_shard[p].shard_count > 0)
              => last_shard[p] # None

\* A call has looked up a last shard behind the main shard while the other
\* caller committed new shards on the same key.
C3_Witness ==
    \E p, q \in Procs :
        /\ p # q
        /\ pc[p] = "put"
        /\ main_shard[p] # None
        /\ main_shard[p].shard_count > 0
        /\ last_shard[p] # None
        /\ key[q] = key[p]
        /\ result[q].status = "ok"
        /\ Shard(key[p], 0).shard_count > main_shard[p].shard_count

\* C4: a call that fails leaves every shard of every key as it was, and the
\* store only ever changes by all the entities of one call at once.
C4_AllOrNothing ==
    [][/\ \A p \in Procs : FailStep(p) => store' = store
       /\ store' # store =>
            \E p \in Procs : \E iid \in env.iids : \E new \in Batches :
                /\ CommitStep(p)
                /\ store' = PutMulti(store,
                       entities_to_put(key[p], iid, new, main_shard[p], last_shard[p]))]_vars

\* A call has failed after its transaction was re-run, on a key that holds
\* several shards.
C4_Witness ==
    \E p \in Procs :
        /\ result[p].status = "failed"
        /\ retried[p]
        /\ ShardExists(key[p], 0)
        /\ Shard(key[p], 0).shard_count >= 1

\* C5: when a call commits after its transaction was re-run, or while the
\* other call is under way on the same key, the store keeps every answer it
\* held and gains the answers of the batch: nothing committed is overwritten.
C5_ConcurrentInsertsKeepAll ==
    [][\A p \in Procs :
         (/\ CommitStep(p)
          /\ \/ retried[p]
             \/ \E q \in Procs \ {p} : pc[q] # "idle" /\ key[q] = key[p])
         => \A a \in StoreAnswers :
              /\ inserted'[key[p]][a] - inserted[key[p]][a] \in 0..result'[p].records
              /\ Count(AllAnswers(store', key[p]), a)
                   = Count(AllAnswers(store, key[p]), a)
                       + (inserted'[key[p]][a] - inserted[key[p]][a])]_vars

\* Both callers have inserted answers on one key, one of them after a re-run.
C5_Witness ==
    \E p, q \in Procs :
        /\ p # q
        /\ key[p] = key[q]
        /\ result[p].status = "ok" /\ result[p].records > 0
        /\ result[q].status = "ok" /\ result[q].records > 0
        /\ pc[p] = "idle" /\ pc[q] = "idle"
        /\ retried[p]
        /\ InsertedCount(key[p]) = result[p].records + result[q].records
        /\ Len(AllAnswers(store, key[p])) = InsertedCount(key[p])

StoredShards == { store[id] : id \in EntityIds } \ {None}

\* C6 as stated: no shard in the store has a size above the capacity.
C6_SizeWithinCapacity ==
    \A e \in StoredShards :
        e.accumulated_answer_json_size_bytes <= _MAX_ANSWER_LIST_BYTE_SIZE

\* C6 (amended): every shard in the store has a size of at most 900,000
\* bytes, unless it holds exactly one answer whose own size is above that.
C6_SizeWithinCapacityOrAlone ==
    \A e \in StoredShards :
        \/ e.accumulated_answer_json_size_bytes <= _MAX_ANSWER_LIST_BYTE_SIZE
        \/ /\ Len(e.submitted_answer_list) = 1
           /\ _get_answer_dict_size(e.submitted_answer_list[1])
                  > _MAX_ANSWER_LIST_BYTE_SIZE

\* A shard filled to the very capacity and a shard above it are in the store.
C6_Witness ==
    /\ \E e \in StoredShards :
          e.accumulated_answer_json_size_bytes = _MAX_ANSWER_LIST_BYTE_SIZE
    /\ \E e \in StoredShards :
          e.accumulated_answer_json_size_bytes > _MAX_ANSWER_LIST_BYTE_SIZE

\* The packer has returned from a call.
PackDone == pk.phase = "done"

NonDecreasing(s) ==
    \A i \in 1..(Len(s) - 1) :
        _get_answer_dict_size(s[i]) <= _get_answer_dict_size(s[i + 1])

\* C7: called with a list within the capacity, the packer returns for every
\* new answer a place, and a list above 900,000 bytes only as the list of one
\* answer that is itself above 900,000 bytes; every other list is within.
C7_OnlyOversizedAloneExceeds ==
    (PackDone /\ pk.current_answer_list_size <= _MAX_ANSWER_LIST_BYTE_SIZE) =>
        /\ Len(Flatten(pk.sh.lists))
              = Len(pk.current_answer_list) + Len(pk.new_answer_list)
        /\ Len(pk.sh.sizes) = Len(pk.sh.lists)
        /\ \A b \in 1..Len(pk.sh.lists) :
              /\ pk.sh.sizes[b] = SumSizes(pk.sh.lists[b])
              /\ pk.sh.sizes[b] > _MAX_ANSWER_LIST_BYTE_SIZE =>
                    /\ Len(pk.sh.lists[b]) = 1
                    /\ _get_answer_dict_size(pk.sh.lists[b][1])
                           > _MAX_ANSWER_LIST_BYTE_SIZE

\* A batch with an oversized answer was packed behind a list that holds
\* answers: the oversized answer is alone in a list above the capacity.
C7_Witness ==
    /\ PackDone
    /\ pk.current_answer_list # <<>>
    /\ pk.current_answer_list_size <= _MAX_ANSWER_LIST_BYTE_SIZE
    /\ Len(pk.new_answer_list) >= 2
    /\ \E b \in 1..Len(pk.sh.lists) :
          pk.sh.sizes[b] > _MAX_ANSWER_LIST_BYTE_SIZE

\* C8: the lists the packer returns, one behind the other, are the current
\* list in its order and behind it the new answers in ascending order of
\* their sizes; the first list begins with the whole current list and every
\* new answer is in the lists as often as in the batch.
C8_CurrentThenSortedNew ==
    PackDone =>
        LET out == Flatten(pk.sh.lists)
            n == Len(pk.current_answer_list)
            placed == SubSeq(out, n + 1, Len(out))
        IN  /\ Len(out) = n + Len(pk.new_answer_list)
            /\ SubSeq(out, 1, n) = pk.current_answer_list
            /\ Len(pk.sh.lists[1]) >= n
            /\ SubSeq(pk.sh.lists[1], 1, n) = pk.current_answer_list
            /\ \A a \in Answers : Count(placed, a) = Count(pk.new_answer_list, a)
            /\ NonDecreasing(placed)

\* A batch that was not in the order of the sizes was packed behind a list
\* that holds answers, into more than one list.
C8_Witness ==
    /\ PackDone
    /\ pk.current_answer_list # <<>>
    /\ Len(pk.sh.lists) >= 2
    /\ ~NonDecreasing(pk.new_answer_list)

\* The sizes [500000, 10, 10, 899999] behind an empty list.
C9_Example ==
    _shard_answers(<<>>, 0, <<"m2", "s1", "s1", "l1">>)
        = [ lists |-> << <<"s1", "s1", "m2">>, <<"l1">> >>,
            sizes |-> <<500020, 899999>> ]

\* C9: the packer takes the new answers in ascending order of their sizes and
\* puts each at the end of the last list exactly when the size of that list
\* plus the size of the answer is at most 900,000, and into a new last list of
\* its own otherwise; the lists before the last are left as they are.
C9_GreedyNextFit ==
    [][/\ C9_Example
       /\ (pk.phase = "loop" /\ pk.rest # <<>>) =>
            LET answer_dict == Head(pk.rest)
                size == _get_answer_dict_size(answer_dict)
                n == Len(pk.sh.lists)
            IN  /\ \A i \in 1..Len(pk.rest) :
                       size <= _get_answer_dict_size(pk.rest[i])
                /\ pk'.rest = Tail(pk.rest)
                /\ IF pk.sh.sizes[n] + size <= 900000
                   THEN /\ pk'.sh.lists =
                              [pk.sh.lists EXCEPT ![n] = Append(@, answer_dict)]
                        /\ pk'.sh.sizes = [pk.sh.sizes EXCEPT ![n] = @ + size]
                   ELSE /\ pk'.sh.lists = Append(pk.sh.lists, <<answer_dict>>)
                        /\ pk'.sh.sizes = Append(pk.sh.sizes, size)]_vars

\* An answer has filled a list to exactly 900,000 bytes and the next answer
\* has opened a new list.
C9_Witness ==
    /\ pk.phase \in {"loop", "done"}
    /\ \E b \in 1..(Len(pk.sh.lists) - 1) :
          /\ pk.sh.sizes[b] = 900000
          /\ Len(pk.sh.lists[b]) > Len(pk.current_answer_list)

\* C10: the packer called with no new answers returns one list, the current
\* list in its order, with the size it was called with.
C10_EmptyBatchKeepsTail ==
    (PackDone /\ pk.new_answer_list = <<>>) =>
        /\ pk.sh.lists = <<pk.current_answer_list>>
        /\ pk.sh.sizes = <<pk.current_answer_list_size>>

\* The packer was called with two answers in the current list and none new.
C10_Witness ==
    /\ PackDone
    /\ pk.new_answer_list = <<>>
    /\ Len(pk.current_answer_list) >= 2
    /\ pk.current_answer_list_size > 0


\* C11: when no insert commits during the read, get_all_models returns None
\* exactly when the key has no main shard; otherwise it returns shard_count + 1
\* shards: the main shard first, then the shards 1..shard_count in the order
\* of their ids, each of them as the store holds it.
C11_QuiescentRead ==
    \A k \in Keys :
        LET got == get_all_models(store, k)
        IN  /\ got = None <=> ~ShardExists(k, 0)
            /\ got # None =>
                  /\ Len(got.all_models) = Shard(k, 0).shard_count + 1
                  /\ \A i \in 0..Shard(k, 0).shard_count :
                        /\ got.all_models[i + 1] # None
                        /\ got.all_models[i + 1].shard_id = i
                        /\ got.all_models[i + 1] = Shard(k, i)

\* A read of a key with two shards behind the main shard returns three.
C11_Witness ==
    \E k \in Keys :
        /\ get_all_models(store, k) # None
        /\ Shard(k, 0).shard_count = 2
        /\ Len(get_all_models(store, k).all_models) = 3

\* ------------------------------------- get_all_models next to the inserts

\* The answers of the shards a call of get_all_models returned.
AnswersOf(got) ==
    IF got = None THEN <<>>
    ELSE Flatten([i \in 1..Len(got.all_models) |->
                    IF got.all_models[i] = None THEN <<>>
                    ELSE got.all_models[i].submitted_answer_list])

RdIdle == [ phase |-> "idle", key |-> NoKey, main |-> None, ids |-> <<>>,
            all_models |-> <<>>, before |-> <<>>, prev |-> <<>>, result |-> None ]

\* One caller of insert_submitted_answers and a reader on one key: the reader
\* sees the commits one after the other, whoever makes them.
ReadEnv == [ procs |-> {1}, keys |-> {Key1}, iids |-> {"TextInput"},
            answers |-> StoreAnswers ]

InitRead ==
    /\ store = [id \in EntityIds |-> None]
    /\ pc = [p \in Procs |-> "idle"]
    /\ key = [p \in Procs |-> NoKey]
    /\ main_shard = [p \in Procs |-> None]
    /\ last_shard = [p \in Procs |-> None]
    /\ retried = [p \in Procs |-> FALSE]
    /\ result = [p \in Procs |-> Outcome("none", 0)]
    /\ inserted = [k \in Keys |-> [a \in CountedAnswers |-> 0]]
    /\ env = ReadEnv
    /\ pk = PkOff
    /\ redo = [p \in Procs |-> NoRedo]
    /\ rd = RdIdle
    /\ calc = CalcOff
    /\ rule = RuleOff

\* get_all_models is called, outside a transaction, and reads the main shard:
\* main_shard = cls._get_model(..., 0). Without main shard it returns None.
\* before: the answers in the store when the call began; prev: the answers the
\* reader's call before this one returned for the key.
ReadAllCall(k) ==
    /\ rd.phase \in {"idle", "done"}
    /\ LET main == _get_model(store, k, 0)
           prev == IF rd.phase = "done" /\ rd.key = k THEN AnswersOf(rd.result)
                   ELSE <<>>
       IN  rd' = IF main # None
                 THEN [ phase |-> "get_multi", key |-> k, main |-> main,
                        ids |-> IF main.shard_count > 0
                                THEN shard_ids(main.shard_count) ELSE <<>>,
                        all_models |-> <<main>>,
                        before |-> AllAnswers(store, k), prev |-> prev,
                        result |-> None ]
                 ELSE [ phase |-> "done", key |-> k, main |-> None, ids |-> <<>>,
                        all_models |-> <<>>,
                        before |-> AllAnswers(store, k), prev |-> prev,
                        result |-> None ]
    /\ UNCHANGED << store, pc, key, main_shard, last_shard, retried, result,
                    inserted, env, pk, redo, calc, rule >>

\* all_models += cls.get_multi(shard_ids): outside a transaction the shards
\* are looked up one after the other, commits may come in between.
ReadAllGet ==
    /\ rd.phase = "get_multi"
    /\ rd.ids # <<>>
    /\ rd' = [rd EXCEPT !.all_models = Append(@, _get_model(store, rd.key, Head(rd.ids))),
                        !.ids = Tail(@)]
    /\ UNCHANGED << store, pc, key, main_shard, last_shard, retried, result,
                    inserted, env, pk, redo, calc, rule >>

\* return all_models
ReadAllReturn ==
    /\ rd.phase = "get_multi"
    /\ rd.ids = <<>>
    /\ rd' = [rd EXCEPT !.phase = "done", !.result = [all_models |-> rd.all_models]]
    /\ UNCHANGED << store, pc, key, main_shard, last_shard, retried, result,
                    inserted, env, pk, redo, calc, rule >>

NextRead ==
    \/ \E p \in env.procs, k \in env.keys : Call(p, k)
    \/ \E p \in env.procs : ReadLast(p)
    \/ \E p \in env.procs, iid \in env.iids, new \in Batches : Commit(p, iid, new)
    \/ \E p \in env.procs : Fail(p)
    \/ \E k \in env.keys : ReadAllCall(k)
    \/ ReadAllGet
    \/ ReadAllReturn

SpecRead == InitRead /\ [][NextRead]_vars

\* C12: a get_all_models that runs outside a transaction while inserts commit
\* never gets a missing shard: every shard it looks up, the ids 1..shard_count
\* of the main shard it read, is in the store when it is looked up, and it
\* returns exactly those shards behind the main shard, none that was created
\* after its read of the main shard.
C12_NoMissingShard ==
    (rd.phase \in {"get_multi", "done"} /\ rd.main # None) =>
        /\ \A i \in 1..Len(rd.all_models) :
              /\ rd.all_models[i] # None
              /\ rd.all_models[i].shard_id = i - 1
        /\ Len(rd.all_models) <= rd.main.shard_count + 1
        /\ rd.phase = "done" =>
              Len(rd.result.all_models) = rd.main.shard_count + 1

\* A read that found shard_count = 1 has returned two shards while an insert
\* that committed during the read has created shard 2.
C12_Witness ==
    /\ rd.phase = "done"
    /\ rd.result # None
    /\ rd.main.shard_count = 1
    /\ Len(rd.result.all_models) = 2
    /\ CountOf(store, rd.key) = 2
    /\ Len(rd.before) = 2

\* C13: a call of get_all_models returns every answer that inserts had
\* committed before the call began, whatever inserts commit while it runs; and
\* of two calls one after the other, the second returns every answer the
\* first returned.
C13_ReadsCommitted ==
    rd.phase = "done" =>
        \A a \in StoreAnswers :
            /\ Count(rd.before, a) <= Count(AnswersOf(rd.result), a)
            /\ Count(rd.prev, a) <= Count(AnswersOf(rd.result), a)

\* A second read that began with two answers in the store returns three: an
\* insert committed between its read of the main shard and of shard 1.
C13_Witness ==
    /\ rd.phase = "done"
    /\ Len(rd.prev) >= 1
    /\ Len(rd.before) = 2
    /\ Len(AnswersOf(rd.result)) = 3
    /\ rd.main.shard_count = 1

\* C14: every shard in the store with shard_id 0 has a shard_count, a number
\* that is not negative, and no shard in the store with a shard_id above 0
\* has a shard_count.
C14_CountOnMainOnly ==
    \A id \in EntityIds :
        store[id] # None =>
            IF store[id].shard_id = 0
            THEN /\ "shard_count" \in DOMAIN store[id]
                 /\ store[id].shard_count \in Nat
            ELSE "shard_count" \notin DOMAIN store[id]

\* A main shard that counts two shards, both in the store, after two commits
\* on the key.
C14_Witness ==
    \E k \in Keys :
        /\ ShardExists(k, 0) /\ ShardExists(k, 1) /\ ShardExists(k, 2)
        /\ Shard(k, 0).shard_count = 2
        /\ Shard(k, 2).shard_id = 2

\* C15: from one state of the store to the next the shard_count of the main
\* shard of a key never gets smaller, and a shard that is in the store stays
\* in the store.
C15_CountAndShardsStay ==
    [][store' # store =>
         \A k \in Keys :
            /\ CountOf(store', k) >= CountOf(store, k)
            /\ \A i \in 0..MaxShardId : ShardExists(k, i) => ShardExists(k, i)']_vars

\* Three commits of one answer each have raised shard_count to 2.
C15_Witness ==
    \E k \in Keys, p \in Procs :
        /\ key[p] = k
        /\ result[p] = Outcome("ok", 1)
        /\ ShardExists(k, 0)
        /\ Shard(k, 0).shard_count = 2
        /\ \A i \in 0..2 : Len(Shard(k, i).submitted_answer_list) = 1

IsPrefix(s, t) == Len(s) <= Len(t) /\ SubSeq(t, 1, Len(s)) = s

\* C16: an answer at position j of shard i of a key is at position j of
\* shard i in every later state of the store: a step only appends to the
\* answer list of the last shard, the shard the old shard_count names, and
\* leaves the answer lists of the other shards as they are.
C16_PositionsStay ==
    [][store' # store =>
         \A k \in Keys : \A i \in 0..MaxShardId :
            ShardExists(k, i) =>
                /\ ShardExists(k, i)'
                /\ IsPrefix(Shard(k, i).submitted_answer_list,
                            Shard(k, i)'.submitted_answer_list)
                /\ i # CountOf(store, k) =>
                      Shard(k, i)'.submitted_answer_list =
                          Shard(k, i).submitted_answer_list]_vars

\* A commit has appended a second, different answer to shard 1 behind a full
\* main shard.
C16_Witness ==
    \E k \in Keys, p \in Procs :
        /\ key[p] = k
        /\ result[p] = Outcome("ok", 1)
        /\ ShardExists(k, 0)
        /\ Shard(k, 0).shard_count = 1
        /\ Len(Shard(k, 1).submitted_answer_list) = 2
        /\ Shard(k, 1).submitted_answer_list[1] # Shard(k, 1).submitted_answer_list[2]

\* ------------------------------------------- a committed call run once more

\* Two callers on one key whose transactions may be run again after they
\* have committed.
RetryEnv == [ procs |-> Procs, keys |-> {Key1}, iids |-> {"TextInput"},
             answers |-> StoreAnswers ]

InitRetry ==
    /\ store = [id \in EntityIds |-> None]
    /\ pc = [p \in Procs |-> "idle"]
    /\ key = [p \in Procs |-> NoKey]
    /\ main_shard = [p \in Procs |-> None]
    /\ last_shard = [p \in Procs |-> None]
    /\ retried = [p \in Procs |-> FALSE]
    /\ result = [p \in Procs |-> Outcome("none", 0)]
    /\ inserted = [k \in Keys |-> [a \in CountedAnswers |-> 0]]
    /\ env = RetryEnv
    /\ pk = PkOff
    /\ redo = [p \in Procs |-> NoRedo]
    /\ rd = RdOff
    /\ calc = CalcOff
    /\ rule = RuleOff

\* The transaction of the call commits, but the commit is reported as
\* interrupted: _insert_submitted_answers_unsafe is run once more with the
\* same arguments, from its read of the main shard. base: the answers of the
\* key before the commit.
CommitInterrupted(p, interaction_id, new) ==
    /\ pc[p] = "put"
    /\ redo[p].phase = "none"
    /\ CanCompute(p)
    /\ InTransaction => ReadsValid(p)
    /\ store' = PutMulti(store, entities_to_put(key[p], interaction_id, new,
                                                main_shard[p], last_shard[p]))
    /\ inserted' = [inserted EXCEPT ![key[p]] =
                       [a \in CountedAnswers |-> @[a] + Count(new, a)]]
    /\ LET m == _get_model(store', key[p], 0)
       IN  /\ main_shard' = [main_shard EXCEPT ![p] = m]
           /\ pc' = [pc EXCEPT ![p] = AfterMain(m)]
    /\ last_shard' = [last_shard EXCEPT ![p] = None]
    /\ retried' = [retried EXCEPT ![p] = TRUE]
    /\ redo' = [redo EXCEPT ![p] =
                   [ phase |-> "rerun", interaction_id |-> interaction_id,
                     batch |-> new, base |-> AllAnswers(store, key[p]) ]]
    /\ UNCHANGED << key, result, env, pk, rd, calc, rule >>

\* The run after the interrupted commit commits: the same batch is sharded
\* and put once more.
RerunCommit(p) ==
    /\ pc[p] = "put"
    /\ redo[p].phase = "rerun"
    /\ CanCompute(p)
    /\ InTransaction => ReadsValid(p)
    /\ store' = PutMulti(store, entities_to_put(key[p], redo[p].interaction_id,
                                                redo[p].batch,
                                                main_shard[p], last_shard[p]))
    /\ inserted' = [inserted EXCEPT ![key[p]] =
                       [a \in CountedAnswers |-> @[a] + Count(redo[p].batch, a)]]
    /\ pc' = [pc EXCEPT ![p] = "idle"]
    /\ main_shard' = [main_shard EXCEPT ![p] = None]
    /\ last_shard' = [last_shard EXCEPT ![p] = None]
    /\ result' = [result EXCEPT ![p] = Outcome("ok", Len(redo[p].batch))]
    /\ redo' = [redo EXCEPT ![p].phase = "done"]
    /\ UNCHANGED << key, retried, env, pk, rd, calc, rule >>

NextRetry ==
    \/ Next
    \/ \E p \in Procs, iid \in env.iids, new \in Batches : CommitInterrupted(p, iid, new)
    \/ \E p \in Procs : RerunCommit(p)

SpecRetry == InitRetry /\ [][NextRetry]_vars

\* C17: insert_submitted_answers does not look for answers that are already
\* stored: when a call whose transaction has committed is run once more with
\* the same batch and commits again, the shards of the key hold every answer
\* of the batch twice, on top of what they held before.
C17_RetryDuplicates ==
    \A p \in Procs :
        redo[p].phase = "done" =>
            \A a \in StoreAnswers :
                Count(AllAnswers(store, key[p]), a) >=
                    Count(redo[p].base, a) + 2 * Count(redo[p].batch, a)

\* A batch of two different answers was committed twice behind one answer.
C17_Witness ==
    \E p \in Procs :
        /\ redo[p].phase = "done"
        /\ Len(redo[p].batch) = 2
        /\ redo[p].batch[1] # redo[p].batch[2]
        /\ Len(redo[p].base) = 1
        /\ Len(AllAnswers(store, key[p])) = 5
        /\ \A a \in StoreAnswers :
              Count(AllAnswers(store, key[p]), a) =
                  Count(redo[p].base, a) + 2 * Count(redo[p].batch, a)

\* C18 as stated: the first successful insert on a key, whatever its batch,
\* stores the main shard with a shard_count, and get_all_models no longer
\* returns None for the key.
C18_MasterAfterFirstInsert ==
    [][\A p \in Procs :
         (CommitStep(p) /\ \A i \in 0..MaxShardId : ~ShardExists(key[p], i)) =>
             /\ ShardExists(key[p], 0)'
             /\ Shard(key[p], 0)'.shard_count \in Nat
             /\ get_all_models(store', key[p]) # None]_vars

\* C18 (amended): a key has no shard before an insert with at least one
\* answer has succeeded on it; a successful insert with at least one answer
\* leaves the main shard in the store, with a shard_count, so that
\* get_all_models does not return None; a successful insert of an empty batch
\* on a key without main shard writes nothing, get_all_models still returns
\* None.
C18_LazyMaster ==
    [][\A k \in Keys :
         /\ InsertedCount(k)' = 0 =>
               /\ \A i \in 0..MaxShardId : ~ShardExists(k, i)'
               /\ get_all_models(store', k) = None
         /\ \A p \in Procs :
               (CommitStep(p) /\ key[p] = k) =>
                   IF result'[p].records > 0
                   THEN /\ ShardExists(k, 0)'
                        /\ Shard(k, 0)'.shard_count \in Nat
                        /\ get_all_models(store', k) # None
                   ELSE ~ShardExists(k, 0) =>
                            /\ store' = store
                            /\ get_all_models(store', k) = None]_vars

\* The first insert on a key has put two answers, into the main shard and a
\* shard 1 made with it.
C18_Witness ==
    \E p \in Procs :
        /\ result[p] = Outcome("ok", 2)
        /\ InsertedCount(key[p]) = 2
        /\ get_all_models(store, key[p]) # None
        /\ Shard(key[p], 0).shard_count = 1

\* ------------------------------------------- StateAnswersCalcOutputModel

\* An exploration version as the callers pass it: a number, or a string such
\* as "1" or "all".
VInt(n) == [ is_int |-> TRUE, int |-> n, string |-> "" ]

VStr(x) == [ is_int |-> FALSE, int |-> 0, string |-> x ]

\* str(exploration_version)
str(v) == IF v.is_int THEN ToString(v.int) ELSE v.string

CalcKey(exploration_id, exploration_version, state_name, calculation_id) ==
    [ exploration_id |-> exploration_id, exploration_version |-> exploration_version,
      state_name |-> state_name, calculation_id |-> calculation_id ]

\* The keys create_or_update is called with: one key and four that differ
\* from it in one part each. The version is the string the StringProperty
\* exploration_version takes.
CalcKeys ==
    { CalcKey("exp1", VStr("1"), "Intro", "AnswerFrequencies"),
      CalcKey("exp2", VStr("1"), "Intro", "AnswerFrequencies"),
      CalcKey("exp1", VStr("all"), "Intro", "AnswerFrequencies"),
      CalcKey("exp1", VStr("1"), "End", "AnswerFrequencies"),
      CalcKey("exp1", VStr("1"), "Intro", "Top5AnswerFrequencies") }

\* The keys get_model is asked for: the version may also be a number.
CalcGetKeys ==
    CalcKeys \cup { [k EXCEPT !.exploration_version = VInt(1)] :
                      k \in { x \in CalcKeys : x.exploration_version = VStr("1") } }

CalcOutputs == {"out1", "out2"}

\* StateAnswersCalcOutputModel._get_entity_id
Calc_get_entity_id(exploration_id, exploration_version, state_name, calculation_id) ==
    exploration_id \o ":" \o str(exploration_version) \o ":"
        \o state_name \o ":" \o calculation_id

\* The ids of the keys, computed once.
CalcIdTable ==
    [ k \in CalcGetKeys |->
        Calc_get_entity_id(k.exploration_id, k.exploration_version,
                           k.state_name, k.calculation_id) ]

CalcIds == { CalcIdTable[k] : k \in CalcGetKeys }

\* cls(id=instance_id, exploration_id=..., calculation_output=...)
StateAnswersCalcOutputModel(instance_id, k, calculation_output) ==
    [ id |-> instance_id,
      exploration_id |-> k.exploration_id,
      exploration_version |-> k.exploration_version,
      state_name |-> k.state_name,
      calculation_id |-> k.calculation_id,
      calculation_output |-> calculation_output ]

instance_to_put_KeepOld(instance, instance_id, k, calculation_output) ==
    IF instance = None
    THEN StateAnswersCalcOutputModel(instance_id, k, calculation_output)
    ELSE instance

\* if not instance: a new instance; else: instance.calculation_output = ...
instance_to_put(instance, instance_id, k, calculation_output) ==
    IF instance = None
    THEN StateAnswersCalcOutputModel(instance_id, k, calculation_output)
    ELSE [instance EXCEPT !.calculation_output = calculation_output]

put_outcome_Raise(put_ok) == IF put_ok THEN "ok" ELSE "raised"

\* try: instance.put() / except Exception: logging.exception(...): how the
\* call ends, given whether put went through.
put_outcome(put_ok) == IF put_ok THEN "ok" ELSE "logged"

\* get_model: the entity under the id made with str(exploration_version), or
\* None.
get_model(st, exploration_id, exploration_version, state_name, calculation_id) ==
    Get(st, CalcIdTable[CalcKey(exploration_id, VStr(str(exploration_version)),
                                state_name, calculation_id)])

NoCall == [ key |-> NoKey, calculation_output |-> "", put_ok |-> TRUE,
            outcome |-> "none" ]

\* The store of calculation outputs is empty. last: per key, the output of
\* the last create_or_update whose put went through.
InitCalc ==
    /\ store = [id \in EntityIds |-> None]
    /\ pc = [p \in Procs |-> "idle"]
    /\ key = [p \in Procs |-> NoKey]
    /\ main_shard = [p \in Procs |-> None]
    /\ last_shard = [p \in Procs |-> None]
    /\ retried = [p \in Procs |-> FALSE]
    /\ result = [p \in Procs |-> Outcome("none", 0)]
    /\ inserted = [k \in Keys |-> [a \in CountedAnswers |-> 0]]
    /\ env = [ procs |-> {}, keys |-> {}, iids |-> {}, answers |-> {} ]
    /\ pk = PkOff
    /\ redo = [p \in Procs |-> NoRedo]
    /\ rd = RdOff
    /\ calc = [ phase |-> "on",
                store |-> [id \in CalcIds |-> None],
                last |-> [k \in CalcKeys |-> None],
                call |-> NoCall ]
    /\ rule = RuleOff

\* create_or_update: the entity of the key is read, made or given the new
\* output, and put; a put that fails is logged and leaves the store as it is.
create_or_update(k, calculation_output, put_ok) ==
    LET instance_id == CalcIdTable[k]
        instance == Get(calc.store, instance_id)
        put == instance_to_put(instance, instance_id, k, calculation_output)
    IN  /\ calc.phase = "on"
        /\ calc' = [calc EXCEPT
                      !.store = IF put_ok THEN [@ EXCEPT ![put.id] = put] ELSE @,
                      !.last = IF put_ok
                               THEN [@ EXCEPT ![k] = [calculation_output |-> calculation_output]]
                               ELSE @,
                      !.call = [ key |-> k, calculation_output |-> calculation_output,
                                 put_ok |-> put_ok, outcome |-> put_outcome(put_ok) ]]
        /\ UNCHANGED << store, pc, key, main_shard, last_shard, retried, result,
                        inserted, env, pk, redo, rd, rule >>

NextCalc ==
    \E k \in CalcKeys, calculation_output \in CalcOutputs, put_ok \in BOOLEAN :
        create_or_update(k, calculation_output, put_ok)

SpecCalc == InitCalc /\ [][NextCalc]_vars

\* The key create_or_update stores under: the version as a string.
Canon(k) == [k EXCEPT !.exploration_version = VStr(str(k.exploration_version))]

\* C19: after any calls of create_or_update, get_model returns for every key
\* the entity of the key with the output of the last call for exactly that
\* key whose put went through, and nothing of the outputs before it; it
\* returns None when no put for the key went through; calls for other keys
\* do not change what it returns.
C19_LastUpsertWins ==
    calc.phase = "on" =>
        \A k \in CalcGetKeys :
            LET got == get_model(calc.store, k.exploration_id, k.exploration_version,
                                 k.state_name, k.calculation_id)
                last == calc.last[Canon(k)]
            IN  IF last = None THEN got = None
                ELSE /\ got # None
                     /\ got = StateAnswersCalcOutputModel(CalcIdTable[k], Canon(k),
                                                         last.calculation_output)

\* The output of a key was replaced, asked for with the version as a number,
\* while another key keeps another output and a third has none.
C19_Witness ==
    /\ calc.phase = "on"
    /\ calc.call.put_ok
    /\ calc.call.calculation_output = "out2"
    /\ calc.call.key = CalcKey("exp1", VStr("1"), "Intro", "AnswerFrequencies")
    /\ get_model(calc.store, "exp1", VInt(1), "Intro", "AnswerFrequencies") # None
    /\ get_model(calc.store, "exp1", VInt(1), "Intro",
                 "AnswerFrequencies").calculation_output = "out2"
    /\ get_model(calc.store, "exp1", VInt(1), "Intro", "Top5AnswerFrequencies") # None
    /\ get_model(calc.store, "exp1", VInt(1), "Intro",
                 "Top5AnswerFrequencies").calculation_output = "out1"
    /\ get_model(calc.store, "exp1", VStr("all"), "Intro", "AnswerFrequencies") = None

\* C20: when the put inside create_or_update fails, the call ends without
\* raising, the failure is logged, and the store of calculation outputs is
\* as it was before the call: the output of the key is the one from before,
\* or still missing.
C20_FailedPutDropped ==
    [][(calc.phase = "on" /\ ~calc'.call.put_ok) =>
          /\ calc'.call.outcome = "logged"
          /\ calc'.store = calc.store
          /\ LET k == calc'.call.key
             IN  get_model(calc'.store, k.exploration_id, k.exploration_version,
                           k.state_name, k.calculation_id)
                   = get_model(calc.store, k.exploration_id, k.exploration_version,
                               k.state_name, k.calculation_id)]_vars

\* A put of out2 failed for a key that keeps its output out1.
C20_Witness ==
    /\ calc.phase = "on"
    /\ ~calc.call.put_ok
    /\ calc.call.outcome = "logged"
    /\ calc.call.calculation_output = "out2"
    /\ calc.store[CalcIdTable[calc.call.key]] # None
    /\ calc.store[CalcIdTable[calc.call.key]].calculation_output = "out1"

\* ------------------------------------- rules for lists of unicode strings

\* The strings the subjects and the parameter x are made of.
Elements == {"dog", "fish", "cat"}

Subjects == SeqsUpTo(Elements, MaxSubjectLen)

\* {{k|NonnegativeInt}}, {{a|NonnegativeInt}}, {{b|NonnegativeInt}}
NonnegativeInts == 0..MaxParam

\* subject[k] of a Python list for k >= 0: the element at the 0-based index
\* k, or an IndexError.
getitem(subject, k) ==
    IF k < Len(subject) THEN [raised |-> FALSE, value |-> subject[k + 1]]
    ELSE [raised |-> TRUE, value |-> ""]

\* What an evaluation gives: the boolean it returns, as a string, or the
\* error it raises.
Returned(value) == IF value THEN "True" ELSE "False"

EqualsElementWise_evaluate_AtLeast(k, x, subject) ==
    IF Len(subject) >= k
    THEN LET e == getitem(subject, k)
         IN  IF e.raised THEN "IndexError" ELSE Returned(e.value = x)
    ELSE Returned(FALSE)

\* EqualsElementWise._evaluate:
\* return len(subject) > self.k and subject[self.k] == self.x
EqualsElementWise_evaluate(k, x, subject) ==
    IF Len(subject) > k
    THEN LET e == getitem(subject, k)
         IN  IF e.raised THEN "IndexError" ELSE Returned(e.value = x)
    ELSE Returned(FALSE)

HasLengthInclusivelyBetween_validate_params_Pass(a, b) == TRUE

\* HasLengthInclusivelyBetween._validate_params: assert self.a <= self.b;
\* FALSE stands for the AssertionError.
HasLengthInclusivelyBetween_validate_params(a, b) == a <= b

\* HasLengthInclusivelyBetween._evaluate:
\* return self.a <= len(subject) <= self.b
HasLengthInclusivelyBetween_evaluate(a, b, subject) ==
    Returned(a <= Len(subject) /\ Len(subject) <= b)

\* The rule classes in the model and the parameters they are made with.
NewRule(kind, a, b, k, x) ==
    [ phase |-> "new", kind |-> kind, a |-> a, b |-> b, k |-> k, x |-> x,
      subject |-> <<>>, result |-> "none" ]

NewRules ==
    { NewRule("EqualsElementWise", 0, 0, k, x) : k \in NonnegativeInts, x \in Elements }
    \cup { NewRule("HasLengthInclusivelyBetween", a, b, 0, "") :
              a \in NonnegativeInts, b \in NonnegativeInts }

\* _validate_params of the rule's class; a class without one takes that of
\* the base class, which checks nothing.
_validate_params(r) ==
    IF r.kind = "HasLengthInclusivelyBetween"
    THEN HasLengthInclusivelyBetween_validate_params(r.a, r.b)
    ELSE TRUE

\* _evaluate of the rule's class
_evaluate(r, subject) ==
    IF r.kind = "HasLengthInclusivelyBetween"
    THEN HasLengthInclusivelyBetween_evaluate(r.a, r.b, subject)
    ELSE EqualsElementWise_evaluate(r.k, r.x, subject)

\* A rule is about to be made with some parameters.
InitRule ==
    /\ store = [id \in EntityIds |-> None]
    /\ pc = [p \in Procs |-> "idle"]
    /\ key = [p \in Procs |-> NoKey]
    /\ main_shard = [p \in Procs |-> None]
    /\ last_shard = [p \in Procs |-> None]
    /\ retried = [p \in Procs |-> FALSE]
    /\ result = [p \in Procs |-> Outcome("none", 0)]
    /\ inserted = [k \in Keys |-> [a \in CountedAnswers |-> 0]]
    /\ env = [ procs |-> {}, keys |-> {}, iids |-> {}, answers |-> {} ]
    /\ pk = PkOff
    /\ redo = [p \in Procs |-> NoRedo]
    /\ rd = RdOff
    /\ calc = CalcOff
    /\ rule \in NewRules

\* The rule is constructed: the parameters are set and _validate_params is
\* called; its AssertionError ends the construction.
RuleConstruct ==
    /\ rule.phase = "new"
    /\ rule' = [rule EXCEPT !.phase = IF _validate_params(rule) THEN "constructed"
                                      ELSE "failed"]
    /\ UNCHANGED << store, pc, key, main_shard, last_shard, retried, result,
                    inserted, env, pk, redo, rd, calc >>

\* The constructed rule is evaluated on a subject, for the first time or
\* once more.
RuleEvaluate(subject) ==
    /\ rule.phase \in {"constructed", "evaluated"}
    /\ rule' = [rule EXCEPT !.phase = "evaluated", !.subject = subject,
                            !.result = _evaluate(rule, subject)]
    /\ UNCHANGED << store, pc, key, main_shard, last_shard, retried, result,
                    inserted, env, pk, redo, rd, calc >>

NextRule ==
    \/ RuleConstruct
    \/ \E subject \in Subjects : RuleEvaluate(subject)

SpecRule == InitRule /\ [][NextRule]_vars

\* C21: EqualsElementWise(k, x) evaluated on a list returns true exactly when
\* k < len(subject) and the element at index k is x; for k >= len(subject)
\* it returns false and raises nothing; with k = 2 and x = cat, [dog, fish]
\* gives false and [dog, fish, cat] gives true.
C21_EqualsElementWise ==
    /\ (rule.phase = "evaluated" /\ rule.kind = "EqualsElementWise") =>
          /\ rule.result \in {"True", "False"}
          /\ rule.result = "True" <=>
                (rule.k < Len(rule.subject) /\ rule.subject[rule.k + 1] = rule.x)
          /\ rule.k >= Len(rule.subject) => rule.result = "False"
    /\ EqualsElementWise_evaluate(2, "cat", <<"dog", "fish">>) = "False"
    /\ EqualsElementWise_evaluate(2, "cat", <<"dog", "fish", "cat">>) = "True"

\* The rule with k = 2 and x = cat has been evaluated on [dog, fish], an
\* index out of bounds.
C21_Witness ==
    /\ rule.phase = "evaluated"
    /\ rule.kind = "EqualsElementWise"
    /\ rule.k = 2 /\ rule.x = "cat"
    /\ rule.subject = <<"dog", "fish">>
    /\ rule.result = "False"

\* C22: HasLengthInclusivelyBetween(a, b) is constructed only when a <= b:
\* with a > b the construction fails and the rule is never evaluated; a
\* constructed rule returns true exactly when a <= len(subject) <= b, both
\* bounds included; with a = 1 and b = 3, [] gives false and a list of two
\* elements gives true.
C22_HasLengthInclusivelyBetween ==
    /\ rule.kind = "HasLengthInclusivelyBetween" =>
          /\ rule.phase \in {"constructed", "evaluated"} => rule.a <= rule.b
          /\ rule.a > rule.b => (rule.phase \in {"new", "failed"} /\ rule.result = "none")
          /\ rule.phase = "failed" => rule.a > rule.b
          /\ rule.phase = "evaluated" =>
                /\ rule.result \in {"True", "False"}
                /\ rule.result = "True" <=>
                      (rule.a <= Len(rule.subject) /\ Len(rule.subject) <= rule.b)
    /\ HasLengthInclusivelyBetween_evaluate(1, 3, <<>>) = "False"
    /\ HasLengthInclusivelyBetween_evaluate(1, 3, <<"dog", "fish">>) = "True"

\* The rule with a = 1 and b = 2 has been evaluated on a list of two
\* elements, the upper bound itself.
C22_Witness ==
    /\ rule.phase = "evaluated"
    /\ rule.kind = "HasLengthInclusivelyBetween"
    /\ rule.a = 1 /\ rule.b = 2
    /\ Len(rule.subject) = 2
    /\ rule.result = "True"

\* -------------------------------------------- answers of estimated size 0

\* One caller on one key, with an answer of estimated size 0 among the
\* answers.
ZeroEnv == [ procs |-> {1}, keys |-> {Key1}, iids |-> {"TextInput"},
            answers |-> {ZeroSizeAnswer, "m1", "xl"} ]

InitZero ==
    /\ store = [id \in EntityIds |-> None]
    /\ pc = [p \in Procs |-> "idle"]
    /\ key = [p \in Procs |-> NoKey]
    /\ main_shard = [p \in Procs |-> None]
    /\ last_shard = [p \in Procs |-> None]
    /\ retried = [p \in Procs |-> FALSE]
    /\ result = [p \in Procs |-> Outcome("none", 0)]
    /\ inserted = [k \in Keys |-> [a \in CountedAnswers |-> 0]]
    /\ env = ZeroEnv
    /\ pk = PkOff
    /\ redo = [p \in Procs |-> NoRedo]
    /\ rd = RdOff
    /\ calc = CalcOff
    /\ rule = RuleOff

NextSingle ==
    \/ \E p \in env.procs, k \in env.keys : Call(p, k)
    \/ \E p \in env.procs : ReadLast(p)
    \/ \E p \in env.procs, iid \in env.iids, new \in Batches : Commit(p, iid, new)
    \/ \E p \in env.procs : Fail(p)

SpecZero == InitZero /\ [][NextSingle]_vars

\* The last shard a call at its put works on, what the packer makes of it and
\* a batch, and the index of that shard.
TailAtPut(p, interaction_id) ==
    LastOf(MainOf(key[p], interaction_id, main_shard[p]), last_shard[p])

PackedAtPut(p, interaction_id, new) ==
    _shard_answers(TailAtPut(p, interaction_id).submitted_answer_list,
                   TailAtPut(p, interaction_id).accumulated_answer_json_size_bytes,
                   new)

TailIndexAtPut(p) == IF main_shard[p] = None THEN 0 ELSE main_shard[p].shard_count

\* The step is the commit of a call of p with this batch.
CommitOf(p, interaction_id, new) ==
    /\ CommitStep(p)
    /\ Len(new) = result'[p].records
    /\ \A a \in CountedAnswers :
          Count(new, a) = inserted'[key[p]][a] - inserted[key[p]][a]
    /\ store' = PutMulti(store, entities_to_put(key[p], interaction_id, new,
                                                main_shard[p], last_shard[p]))

\* The packer has put at least one new answer into its first list.
PlacedInFirst(p, interaction_id, new) ==
    Len(PackedAtPut(p, interaction_id, new).lists[1]) >
        Len(TailAtPut(p, interaction_id).submitted_answer_list)

\* After the step the store holds the last shard with the packer's first
\* list and its size.
TailRewritten(p, interaction_id, new) ==
    LET t == _get_model(store', key[p], TailIndexAtPut(p))
    IN  /\ t # None
        /\ t.submitted_answer_list = PackedAtPut(p, interaction_id, new).lists[1]
        /\ t.accumulated_answer_json_size_bytes =
               PackedAtPut(p, interaction_id, new).sizes[1]

\* After the step the store holds the last shard with the answers it had,
\* or still no such shard.
TailListKept(p) ==
    LET t0 == _get_model(store, key[p], TailIndexAtPut(p))
        t1 == _get_model(store', key[p], TailIndexAtPut(p))
    IN  IF t0 = None THEN t1 = None \/ t1.submitted_answer_list = <<>>
        ELSE t1 # None /\ t1.submitted_answer_list = t0.submitted_answer_list

PutAtCommit(p, interaction_id, new) ==
    entities_to_put(key[p], interaction_id, new, main_shard[p], last_shard[p])

\* C24: a call reads the main shard and, at most, the shard its shard_count
\* names; its commit puts only the main shard, the shard that was the last
\* one and shards that were not there, none of them twice; the shards in
\* between and the shards of other keys stay as they are; the main shard is
\* not put when the batch fits into a last shard that is not the main shard;
\* and a commit that changes nothing puts nothing.
C24_ReadsAndWrites ==
    [][\A p \in Procs :
         /\ (main_shard'[p] # main_shard[p] /\ main_shard'[p] # None) =>
                main_shard'[p].shard_id = 0
         /\ (last_shard'[p] # last_shard[p] /\ last_shard'[p] # None) =>
                last_shard'[p].shard_id = main_shard[p].shard_count
         /\ CommitStep(p) =>
              \A iid \in env.iids : \A new \in [1..result'[p].records -> env.answers] :
               CommitOf(p, iid, new) =>
                  LET e == PutAtCommit(p, iid, new)
                      tail == TailIndexAtPut(p)
                  IN  /\ \A i \in 1..Len(e) : \A j \in 1..Len(e) :
                            i # j => e[i].id # e[j].id
                      /\ \A j \in 1..Len(e) :
                            /\ e[j].shard_id = 0 \/ e[j].shard_id >= tail
                            /\ e[j].shard_id > tail => ~ShardExists(key[p], e[j].shard_id)
                      /\ \A k \in Keys : \A i \in 0..MaxShardId :
                            (k # key[p] \/ (0 < i /\ i < tail)) =>
                                Shard(k, i)' = Shard(k, i)
                      /\ (tail > 0 /\ Len(PackedAtPut(p, iid, new).lists) = 1) =>
                            \A j \in 1..Len(e) : e[j].shard_id # 0
                      /\ store' = store => e = <<>>]_vars

\* A commit has put a second answer into shard 2, the last shard, behind a
\* shard 1 that holds one answer larger than a shard.
C24_Witness ==
    \E p \in Procs :
        /\ env = MainEnv
        /\ result[p] = Outcome("ok", 1)
        /\ ShardExists(key[p], 0)
        /\ Shard(key[p], 0).shard_count = 2
        /\ Shard(key[p], 1).submitted_answer_list = <<"xl">>
        /\ Shard(key[p], 2).submitted_answer_list = <<"m1", "m1">>

\* C25: the accumulated_answer_json_size_bytes of every shard in the store
\* is the sum of the estimated sizes of the answers in its
\* submitted_answer_list, 0 for an empty list.
C25_SizeIsSum ==
    \A id \in EntityIds :
        store[id] # None =>
            store[id].accumulated_answer_json_size_bytes =
                SumSizes(store[id].submitted_answer_list)

\* A main shard with two answers that fill it, next to an empty main shard
\* whose answer went into shard 1.
C25_Witness ==
    \E k1 \in Keys, k2 \in Keys :
        /\ ShardExists(k1, 0) /\ ShardExists(k2, 0) /\ ShardExists(k2, 1)
        /\ Shard(k1, 0).submitted_answer_list = <<"m1", "m2">>
        /\ Shard(k1, 0).accumulated_answer_json_size_bytes = 900000
        /\ Shard(k2, 0).submitted_answer_list = <<>>
        /\ Shard(k2, 0).accumulated_answer_json_size_bytes = 0
        /\ Shard(k2, 1).accumulated_answer_json_size_bytes = 900001

\* ------------------------------------------- calls with interaction ids

\* One caller on one key whose calls bring one of two interaction ids.
IidEnv == [ procs |-> {1}, keys |-> {Key1}, iids |-> InteractionIds,
           answers |-> StoreAnswers ]

InitIid ==
    /\ store = [id \in EntityIds |-> None]
    /\ pc = [p \in Procs |-> "idle"]
    /\ key = [p \in Procs |-> NoKey]
    /\ main_shard = [p \in Procs |-> None]
    /\ last_shard = [p \in Procs |-> None]
    /\ retried = [p \in Procs |-> FALSE]
    /\ result = [p \in Procs |-> Outcome("none", 0)]
    /\ inserted = [k \in Keys |-> [a \in CountedAnswers |-> 0]]
    /\ env = IidEnv
    /\ pk = PkOff
    /\ redo = [p \in Procs |-> NoRedo]
    /\ rd = RdOff
    /\ calc = CalcOff
    /\ rule = RuleOff

SpecIid == InitIid /\ [][NextSingle]_vars

\* C26: in every state of the store, whatever interaction ids the calls
\* brought, every shard of a key has the interaction_id of the key's main
\* shard.
C26_SameInteractionId ==
    \A k \in Keys : \A i \in 1..MaxShardId :
        ShardExists(k, i) =>
            /\ ShardExists(k, 0)
            /\ Shard(k, i).interaction_id = Shard(k, 0).interaction_id

\* ------------------------------------------ keys that hold the separator

SeparatorIds == { EntityIdTable[k][i] : k \in SeparatorKeys, i \in 0..MaxShardId }

\* One caller on the two keys with ':' in exploration id or state name.
SeparatorEnv == [ procs |-> {1}, keys |-> SeparatorKeys, iids |-> {"TextInput"},
                 answers |-> StoreAnswers ]

InitSeparator ==
    /\ store = [id \in SeparatorIds |-> None]
    /\ pc = [p \in Procs |-> "idle"]
    /\ key = [p \in Procs |-> NoKey]
    /\ main_shard = [p \in Procs |-> None]
    /\ last_shard = [p \in Procs |-> None]
    /\ retried = [p \in Procs |-> FALSE]
    /\ result = [p \in Procs |-> Outcome("none", 0)]
    /\ inserted = [k \in SeparatorKeys |-> [a \in CountedAnswers |-> 0]]
    /\ env = SeparatorEnv
    /\ pk = PkOff
    /\ redo = [p \in Procs |-> NoRedo]
    /\ rd = RdOff
    /\ calc = CalcOff
    /\ rule = RuleOff

SpecSeparator == InitSeparator /\ [][NextSingle]_vars

\* C27: different keys have different entity ids for all their shards, so
\* the commit of an insert on one key leaves every shard of every other key,
\* and with it the other key's shard_count and answers, as it was, whatever
\* strings the exploration ids and state names are.
C27_KeysIsolated ==
    [][\A p \in Procs :
         CommitStep(p) =>
            \A k \in env.keys \ {key[p]} :
                /\ \A i \in 0..MaxShardId : \A j \in 0..MaxShardId :
                      EntityIdTable[k][i] # EntityIdTable[key[p]][j]
                /\ \A i \in 0..MaxShardId : Shard(k, i)' = Shard(k, i)
                /\ get_all_models(store', k) = get_all_models(store, k)]_vars

====
